---------------------------- MODULE Spec2Model ----------------------------
(***************************************************************************)
(* A model of cloudlamma.py (class OllamaSetup): the retry wrapper, the    *)
(* model-name validator, the health monitor, the service launcher and the  *)
(* model pull/run drivers.                                                 *)
(*                                                                         *)
(* Conventions.  A Python Optional argument is None (the empty tuple) or   *)
(* Some(x) (a one-element tuple).  Durations are integers in milliseconds  *)
(* (0.5 s is 500).  A string is a sequence of characters.  An              *)
(* object produced by the n-th invocation of an operation carries n, so    *)
(* that "the same error" and "the operation's value" mean identity.        *)
(***************************************************************************)
EXTENDS Integers, Sequences, FiniteSets, TLC

VARIABLES
    \* ---- inputs of a retry_operation call made by the test harness
    opScript,      \* what the wrapped operation does on its 1st, 2nd, ... call
    argMax,        \* the max_retries argument (None or Some(n))
    argDelay,      \* the delay argument, in ms
    argBackoff,    \* the backoff argument
    \* ---- retry_operation's frame
    rpc,           \* "idle", "attempt", "sleeping", "returned", "raised"
    max_retries,   \* local max_retries after the "or" default
    delay,         \* local delay after the "or" default
    backoff,       \* local backoff after the "or" default
    attempt,       \* the loop variable
    wait_time,     \* the wait computed for the pending sleep
    calls,         \* number of invocations of operation() so far
    sleeps,        \* durations passed to time.sleep, in order
    warns,         \* retry warnings printed, in order
    outcome,       \* what the call ended with: the value returned or the error raised
    \* ---- the validator's harness
    argName,       \* the string handed to validate / sanitize / pull_model / run_model
    vpc,           \* "start", "validated", "sanitized", "resanitized"
    valid,         \* what validate_model_name(argName) returned
    clean,         \* what sanitize_model_name(argName) returned or raised
    clean2,        \* what sanitize_model_name applied to clean's value returned or raised
    \* ---- the host
    listening,     \* the port is in use: lsof -i :11434 exits 0
    ollamaInstalled, \* the ollama executable is on the search path
    \* ---- the caller of start_ollama, pull_model and run_model
    op,            \* the operation in progress: "none", "start_ollama", "pull_model", "run_model"
    opsLeft,       \* operations the caller may still start
    process,       \* "running", or "exit1" once an error reached the top level
    lsofRuns,      \* lsof subprocesses run during the operation in progress
    \* ---- pull_model's / run_model's frame
    dpc,           \* "idle", "starting", "spawn", "running", "done", "raised"
    model_name,    \* the local model_name
    modelProcs,    \* argument vectors of the ollama pull / ollama run subprocesses spawned
    driverSleeps,  \* seconds slept by the driver (line 483 / 542)
    dmsg,          \* the message the driver printed last: "none", "invalid", "success", "failed"
    \* ---- start_ollama's frame
    spc,           \* "idle", "call", "poll", "sleep", "done", "raised"
    listeningAtCall, \* what is_ollama_running() returned on line 325
    serverSpawns,  \* ollama serve processes spawned by this call
    pollResults,   \* what each is_ollama_responsive() call of the loop returned, in order
    pollSleeps,    \* seconds slept by the loop's time.sleep(1)
    startMsg,      \* "none", "ready" (line 337) or "warn" (line 341)
    \* ---- is_ollama_responsive's frame
    hpc,           \* "idle", "probing", "done"
    probeListening, \* what is_ollama_running() returned on line 311
    gets,          \* the answers of the GETs made by this call, in order
    responsive,    \* the value returned
    \* ---- the command line and the tunnel client (cloudflared)
    verbose,       \* the --verbose flag
    cloudflaredInstalled, \* the cloudflared executable is on the search path
    clientState,   \* "none", "running", "exited"
    stream,        \* the lines the client writes while it runs, in order
    avail,         \* how many lines of stream the pipe delivers in all
    staysAlive,    \* the client never exits on its own
    obeysTerm,     \* the client exits when it is sent SIGTERM
    termSent,      \* process.terminate() has been called
    \* ---- start_temp_tunnel's frame
    tpc,           \* "idle", "spawn", "poll", "read", "sleep", "active", "waiting", "done", "raised"
    tmpFile,       \* the temporary config file: "absent", "exists", "removed"
    iter,          \* iterations of the URL loop begun
    readCount,     \* lines taken from the pipe by readline()
    tunnel_url,    \* None or Some(url)
    echoed,        \* lines printed because of --verbose
    tlog,          \* what the supervisor printed and did, in order
    texc,          \* the exception start_temp_tunnel ended with, or "none"
    \* ---- the host as the installer sees it
    hasBrew,       \* shutil.which("brew") finds something
    hasApt,        \* shutil.which("apt") finds something
    configBefore,  \* what ~/.cloudflared/config.yml held before the install
    configFile,    \* what it holds now: None (no file) or Some(lines)
    debFile,       \* cloudflared.deb exists in the working directory
    \* ---- install_ollama's / install_cloudflared's frame
    ipc,           \* "idle", "next", "run", "config", "done", "exit"
    iwhich,        \* "none", "ollama", "cloudflared"
    istep,         \* the place in the plan of the step in hand
    toolNow,       \* what the tool of the step in hand does: "ok", "nonzero", "hang", "missing"
    toolLater,     \* what it would do if the same step were run again
    stepRuns,      \* how many times the step in hand has been run
    arch,          \* what uname -m printed
    url,           \* the download URL chosen for arch
    imsg,          \* the last message of the installer
    \* ---- an exception on its way up the call stack
    usite,         \* the call the program is in
    ustack,        \* the functions and try blocks around it, innermost last
    ustatus,       \* "waiting", "unwinding", "resumed", "exited"
    uexc,          \* the exception in flight, or "none"
    uraised,       \* the exception the call raised first, or "none"
    umsgs,         \* the messages printed on the way
    \* the output loop of pull_model (lines 493-519)
    pullIn,        \* the lines of process.stdout, in order
    ppc,           \* "idle", "loop" (in the for loop), "done" (after line 519)
    ppos,          \* how many lines the loop has consumed
    last_message,  \* line 494
    manifest_count,\* line 495
    pout           \* what was printed: indicator updates, newlines, lines

retryIn == <<opScript, argMax, argDelay, argBackoff>>
validatorVars == <<vpc, valid, clean, clean2>>
hostVars == <<listening, ollamaInstalled>>
callerVars == <<op, opsLeft, process, lsofRuns>>
driverVars == <<dpc, model_name, modelProcs, driverSleeps, dmsg>>
startVars == <<spc, listeningAtCall, serverSpawns, pollResults, pollSleeps, startMsg>>
healthVars == <<hpc, probeListening, gets, responsive>>
serviceVars == <<hostVars, callerVars, driverVars, startVars, healthVars>>
clientVars == <<verbose, cloudflaredInstalled, clientState, stream, avail,
                staysAlive, obeysTerm, termSent>>
tunnelVars == <<tpc, tmpFile, iter, readCount, tunnel_url, echoed, tlog, texc>>
installHost == <<hasBrew, hasApt, configBefore, configFile, debFile>>
installVars == <<ipc, iwhich, istep, toolNow, toolLater, stepRuns, arch, url, imsg>>
unwindVars == <<usite, ustack, ustatus, uexc, uraised, umsgs>>
pullVars == <<pullIn, ppc, ppos, last_message, manifest_count, pout>>
retryVars == <<rpc, max_retries, delay, backoff, attempt, wait_time,
               calls, sleeps, warns, outcome>>

-----------------------------------------------------------------------------
(* Bounds of the model *)
\* The longest run of lines after the leading "pulling manifest" lines.
MaxPullLines == 3

\* The largest max_retries the harness passes, and the length of opScript.
MaxAttempts == 3
\* The longest string over SampleChars the validator's harness builds (before padding).
MaxLen == 2
\* The longest string over SampleChars handed to pull_model and run_model.
MaxArgLen == 1
\* The number of operations the caller starts one after the other.
MaxOps == 2
\* The longest run of sample lines that ends a stream of the tunnel client.
MaxLines == 2
\* The most lines written and not yet read that the client leaves in the pipe
\* when it exits.
MaxBacklog == 2

-----------------------------------------------------------------------------
(* Config (src/cloudlamma.py:26-57) *)

config_max_retries == 3
config_retry_delay == 1000
config_retry_backoff == 2
config_max_model_name_length == 100
config_ollama_startup_wait == 30
config_tunnel_url_wait == 30
config_install_timeout == 300
config_update_timeout == 120
config_download_timeout == 120
config_service_timeout == 60
config_health_check_timeout == 5

-----------------------------------------------------------------------------
(* Python values *)

None == <<>>
Some(x) == <<x>>

\* Python's "x or dflt" for a numeric Optional: None and 0 are falsy.
OrDefaultNoneOnly(x, dflt) == IF x = None THEN dflt ELSE x[1]
OrDefault(x, dflt) == IF x = None THEN dflt ELSE IF x[1] = 0 THEN dflt ELSE x[1]

RECURSIVE Pow(_, _)
Pow(b, n) == IF n <= 0 THEN 1 ELSE b * Pow(b, n - 1)

\* Exception classes the model raises, and the ones retry_operation catches:
\* requests.exceptions.RequestException (ConnectionError is a subclass) and
\* subprocess.CalledProcessError.  subprocess.TimeoutExpired and ValueError
\* are outside both.
ErrorClasses == {"ConnectionError", "CalledProcessError", "TimeoutExpired", "ValueError"}
RecoverableAny(cls) == cls \in ErrorClasses
Recoverable(cls) == cls \in {"ConnectionError", "CalledProcessError"}

\* What one invocation of an operation does.
Ret(v) == [kind |-> "return", what |-> v]
Raise(cls) == [kind |-> "raise", what |-> cls]

\* The object the n-th invocation produced.
Obj(o, n) == [kind |-> o.kind, what |-> o.what, call |-> n]
NoOutcome == [kind |-> "none", what |-> "none", call |-> 0]
AllFailed == [kind |-> "raise", what |-> "Exception: All retry attempts failed", call |-> 0]

-----------------------------------------------------------------------------
(* retry_operation (src/cloudlamma.py:149-169) *)

\* Lines 151-155: the defaults, then the head of the for loop.
retry_operation(mr, d, b) ==
    LET n == OrDefault(mr, config_max_retries) IN
    /\ rpc = "idle"
    /\ max_retries' = n
    /\ delay' = OrDefault(d, config_retry_delay)
    /\ backoff' = OrDefault(b, config_retry_backoff)
    /\ attempt' = 0
    /\ wait_time' = 0
    /\ calls' = 0
    /\ sleeps' = <<>>
    /\ warns' = <<>>
    /\ IF n > 0
         THEN rpc' = "attempt" /\ outcome' = NoOutcome
         ELSE rpc' = "raised" /\ outcome' = AllFailed

\* Line 159: is this the last attempt?
LastAttemptOffByOne(a, n) == a = n
LastAttempt(a, n) == a = n - 1

\* Line 162: wait_time = delay * (backoff ** attempt)
WaitTimeLinear(d, b, a) == d * b * a
WaitTime(d, b, a) == d * Pow(b, a)

\* Lines 156-166: one pass of the loop body, where the operation does o.
RetryAttempt(o) ==
    /\ rpc = "attempt"
    /\ calls' = calls + 1
    /\ UNCHANGED <<max_retries, delay, backoff, attempt, sleeps>>
    /\ IF o.kind = "return"
         THEN /\ rpc' = "returned"
              /\ outcome' = Obj(o, calls + 1)
              /\ UNCHANGED <<wait_time, warns>>
         ELSE IF Recoverable(o.what) /\ ~LastAttempt(attempt, max_retries)
           THEN /\ rpc' = "sleeping"
                /\ wait_time' = WaitTime(delay, backoff, attempt)
                /\ warns' = Append(warns, <<attempt + 1, max_retries,
                                            WaitTime(delay, backoff, attempt)>>)
                /\ UNCHANGED outcome
           ELSE /\ rpc' = "raised"
                /\ outcome' = Obj(o, calls + 1)
                /\ UNCHANGED <<wait_time, warns>>

\* Line 167, then the loop head again (line 155) or the trailing raise (line 169).
RetrySleep ==
    /\ rpc = "sleeping"
    /\ sleeps' = Append(sleeps, wait_time)
    /\ attempt' = attempt + 1
    /\ UNCHANGED <<max_retries, delay, backoff, wait_time, calls, warns>>
    /\ IF attempt + 1 < max_retries
         THEN rpc' = "attempt" /\ UNCHANGED outcome
         ELSE rpc' = "raised" /\ outcome' = AllFailed

RetryIdle ==
    /\ rpc = "idle" /\ max_retries = 0 /\ delay = 0 /\ backoff = 0 /\ attempt = 0
    /\ wait_time = 0 /\ calls = 0 /\ sleeps = <<>> /\ warns = <<>>
    /\ outcome = NoOutcome

\* The frame is gone once the caller has taken what the call ended with.
RetryReset ==
    /\ rpc' = "idle" /\ max_retries' = 0 /\ delay' = 0 /\ backoff' = 0 /\ attempt' = 0
    /\ wait_time' = 0 /\ calls' = 0 /\ sleeps' = <<>> /\ warns' = <<>>
    /\ outcome' = NoOutcome

-----------------------------------------------------------------------------
(* Harness of retry_operation: an operation whose behaviour is a script *)

Outcomes == {Ret("value")} \cup {Raise(c) : c \in ErrorClasses}
Scripts == [1..MaxAttempts -> Outcomes]
ArgsMax == {None} \cup {Some(n) : n \in 0..MaxAttempts}
ArgsDelay == {None, Some(0), Some(500)}
ArgsBackoff == {None, Some(0), Some(1), Some(3)}

\* What the operation does on its n-th call.
Script(n) == IF n <= Len(opScript) THEN opScript[n] ELSE opScript[Len(opScript)]

RetryHarnessInit ==
    /\ opScript \in Scripts
    /\ argMax \in ArgsMax
    /\ argDelay \in ArgsDelay
    /\ argBackoff \in ArgsBackoff
    /\ RetryIdle

CallRetry == retry_operation(argMax, argDelay, argBackoff) /\ UNCHANGED retryIn
OperationCall == RetryAttempt(Script(calls + 1)) /\ UNCHANGED retryIn
BackoffSleep == RetrySleep /\ UNCHANGED retryIn

-----------------------------------------------------------------------------
(* validate_model_name, sanitize_model_name (src/cloudlamma.py:123-147) *)

Lower == {"a","b","c","d","e","f","g","h","i","j","k","l","m",
          "n","o","p","q","r","s","t","u","v","w","x","y","z"}
Upper == {"A","B","C","D","E","F","G","H","I","J","K","L","M",
          "N","O","P","Q","R","S","T","U","V","W","X","Y","Z"}
Digits == {"0","1","2","3","4","5","6","7","8","9"}

\* The class [a-zA-Z0-9._:-] of line 134.
NameClass == Lower \cup Upper \cup Digits \cup {".", "_", ":", "-"}

\* The grave accent (U+0060), which a TLA+ string cannot hold, is the
\* character written "grave".
Grave == "grave"

\* Line 129.
dangerous_chars == {";", "&", "|", Grave, "$", "(", ")", "<", ">", "\"", "'", "\\", "\n", "\r"}

\* The ASCII characters str.strip() removes.
Whitespace == {" ", "\t", "\n", "\r", "\f"}

AllIn(s, S) == \A i \in 1..Len(s) : s[i] \in S

\* Line 130: any(char in model_name for char in dangerous_chars)
NoDangerCheck(s) == FALSE
HasDangerousChar(s) == \E i \in 1..Len(s) : s[i] \in dangerous_chars

\* Line 134: re.match(r'^[a-zA-Z0-9._:-]+$', s).  In Python the $ matches at the
\* end of the string and also just before a newline that ends the string.
ReMatch(s) ==
    LET n == Len(s) IN
    \/ n >= 1 /\ AllIn(s, NameClass)
    \/ n >= 2 /\ s[n] = "\n" /\ AllIn(SubSeq(s, 1, n - 1), NameClass)

\* Line 138.
TooLong(s) == Len(s) > config_max_model_name_length

validate_model_name(s) ==
    IF Len(s) = 0 THEN FALSE
    ELSE IF HasDangerousChar(s) THEN FALSE
    ELSE IF ~ReMatch(s) THEN FALSE
    ELSE IF TooLong(s) THEN FALSE
    ELSE TRUE

RECURSIVE LStrip(_)
LStrip(s) == IF Len(s) > 0 /\ s[1] \in Whitespace THEN LStrip(Tail(s)) ELSE s
RECURSIVE RStrip(_)
RStrip(s) == IF Len(s) > 0 /\ s[Len(s)] \in Whitespace
               THEN RStrip(SubSeq(s, 1, Len(s) - 1)) ELSE s

\* str.strip()
StripFirstLast(s) == SubSeq(s, 2, Len(s) - 1)
Strip(s) == RStrip(LStrip(s))

\* Lines 145-147: raises ValueError or returns model_name.strip()
sanitize_model_name(s) ==
    IF ~validate_model_name(s) THEN Raise("ValueError") ELSE Ret(Strip(s))

-----------------------------------------------------------------------------
(* Harness of the validator: strings over a sample of characters *)

\* Seven characters of the class, the fourteen dangerous ones, and four others.
SampleChars == {"a", "Z", "7", ".", "_", ":", "-"} \cup dangerous_chars
                 \cup {" ", "\t", "/", "*"}

RECURSIVE StringsUpTo(_)
StringsUpTo(n) ==
    IF n = 0 THEN {<<>>}
    ELSE LET shorter == StringsUpTo(n - 1) IN
         shorter \cup {Append(s, c) : s \in {t \in shorter : Len(t) = n - 1}, c \in SampleChars}

RECURSIVE Pad(_)
Pad(n) == IF n <= 0 THEN <<>> ELSE <<"a">> \o Pad(n - 1)

\* No padding, or enough "a"s in front to bring the length around the limit.
PadLens == {0} \cup ((config_max_model_name_length - MaxLen)
                        ..(config_max_model_name_length + 1))
Names == {Pad(n) \o s : n \in PadLens, s \in StringsUpTo(MaxLen)}

ValidatorIdle ==
    /\ vpc = "start" /\ valid = FALSE /\ clean = NoOutcome /\ clean2 = NoOutcome

ValidatorInit == argName \in Names /\ ValidatorIdle

ValidateName ==
    /\ vpc = "start"
    /\ valid' = validate_model_name(argName)
    /\ vpc' = "validated"
    /\ UNCHANGED <<argName, clean, clean2>>

SanitizeName ==
    /\ vpc \in {"start", "validated"}
    /\ clean' = sanitize_model_name(argName)
    /\ vpc' = "sanitized"
    /\ UNCHANGED <<argName, valid, clean2>>

SanitizeAgain ==
    /\ vpc = "sanitized"
    /\ clean.kind = "return"
    /\ clean2' = sanitize_model_name(clean.what)
    /\ vpc' = "resanitized"
    /\ UNCHANGED <<argName, valid, clean>>

-----------------------------------------------------------------------------
(* The host: the port and the executables *)

\* Any process may take the port or release it at any time.
PortOpens == listening = FALSE /\ listening' = TRUE
PortCloses == listening = TRUE /\ listening' = FALSE

-----------------------------------------------------------------------------
(* is_ollama_responsive (src/cloudlamma.py:309-321) *)

HealthIdle == hpc = "idle" /\ probeListening = FALSE /\ gets = <<>> /\ responsive = FALSE

\* What requests.get answers: a status, or an error.  Nothing answers HTTP on
\* a port nobody listens on.
Statuses == {"HTTP200", "HTTP503"}
GetAnswers(l) == IF l THEN Statuses \cup {"ConnectionError", "ValueError"}
                 ELSE {"ConnectionError"}

\* Lines 315-317: check_health, given what requests.get does.
CheckHealthAnyStatus(g) == IF g \in Statuses THEN Ret(TRUE) ELSE Raise(g)
check_health(g) == IF g \in Statuses THEN Ret(g = "HTTP200") ELSE Raise(g)

\* Line 319: retry_operation(check_health, max_retries=2, delay=0.5)
health_max_retries == 2
health_delay == 500

\* Lines 311-319: the port check, then the entry into retry_operation.
IsResponsiveEnter ==
    /\ spc = "poll" /\ hpc = "idle"
    /\ lsofRuns' = lsofRuns + 1
    /\ probeListening' = listening
    /\ gets' = <<>>
    /\ IF ~listening
         THEN hpc' = "done" /\ responsive' = FALSE /\ UNCHANGED retryVars
         ELSE /\ hpc' = "probing"
              /\ UNCHANGED responsive
              /\ retry_operation(Some(health_max_retries), Some(health_delay), None)
    /\ UNCHANGED <<hostVars, op, opsLeft, process, driverVars, startVars>>

\* One invocation of check_health by retry_operation.
HealthGet ==
    /\ hpc = "probing"
    /\ \E g \in GetAnswers(listening) :
         /\ RetryAttempt(check_health(g))
         /\ gets' = Append(gets, g)
    /\ UNCHANGED <<hostVars, callerVars, driverVars, startVars, hpc, probeListening, responsive>>

\* retry_operation's backoff sleep between two GETs.
HealthBackoff ==
    /\ hpc = "probing"
    /\ RetrySleep
    /\ UNCHANGED serviceVars

\* Lines 319-321: return what retry_operation returned; an Exception gives False.
IsResponsiveReturn ==
    /\ hpc = "probing"
    /\ rpc \in {"returned", "raised"}
    /\ responsive' = IF rpc = "returned" THEN outcome.what ELSE FALSE
    /\ hpc' = "done"
    /\ RetryReset
    /\ UNCHANGED <<hostVars, callerVars, driverVars, startVars, probeListening, gets>>

-----------------------------------------------------------------------------
(* start_ollama (src/cloudlamma.py:323-341) *)

StartIdle ==
    /\ spc = "idle" /\ listeningAtCall = FALSE /\ serverSpawns = 0
    /\ pollResults = <<>> /\ pollSleeps = 0 /\ startMsg = "none"

\* The frame is gone once start_ollama's caller goes on.
StartReset ==
    /\ spc' = "idle" /\ listeningAtCall' = FALSE /\ serverSpawns' = 0
    /\ pollResults' = <<>> /\ pollSleeps' = 0 /\ startMsg' = "none"

\* Line 325: if not self.is_ollama_running()
ShouldStartAlways(running) == TRUE
ShouldStart(running) == ~running

\* Line 336: if self.is_ollama_responsive(): ... return
PollNeverStops(r) == FALSE
PollStops(r) == r

\* Line 335: for attempt in range(config.ollama_startup_wait)
MorePollsOneMore(n) == n <= config_ollama_startup_wait
MorePolls(n) == n < config_ollama_startup_wait

\* Lines 325-332: the port check and the spawn.  Popen raises FileNotFoundError
\* when there is no ollama executable.
StartOllamaEnter ==
    /\ spc = "call"
    /\ lsofRuns' = lsofRuns + 1
    /\ listeningAtCall' = listening
    /\ IF ShouldStart(listening)
         THEN IF ollamaInstalled
                THEN serverSpawns' = serverSpawns + 1 /\ spc' = "poll"
                ELSE serverSpawns' = serverSpawns /\ spc' = "raised"
         ELSE serverSpawns' = serverSpawns /\ spc' = "done"
    /\ UNCHANGED <<pollResults, pollSleeps, startMsg>>
    /\ UNCHANGED <<hostVars, op, opsLeft, process, driverVars, healthVars, retryVars>>

\* Lines 336-338: the poll has answered.
PollEnd ==
    /\ spc = "poll" /\ hpc = "done"
    /\ pollResults' = Append(pollResults, responsive)
    /\ IF PollStops(responsive)
         THEN startMsg' = "ready" /\ spc' = "done"
         ELSE startMsg' = startMsg /\ spc' = "sleep"
    /\ hpc' = "idle" /\ probeListening' = FALSE /\ gets' = <<>> /\ responsive' = FALSE
    /\ UNCHANGED <<listeningAtCall, serverSpawns, pollSleeps>>
    /\ UNCHANGED <<hostVars, callerVars, driverVars, retryVars>>

\* Line 339, then the loop head (line 335) or the warning (line 341).
StartSleep ==
    /\ spc = "sleep"
    /\ pollSleeps' = pollSleeps + 1
    /\ IF MorePolls(Len(pollResults))
         THEN spc' = "poll" /\ startMsg' = startMsg
         ELSE spc' = "done" /\ startMsg' = "warn"
    /\ UNCHANGED <<listeningAtCall, serverSpawns, pollResults>>
    /\ UNCHANGED <<hostVars, callerVars, driverVars, healthVars, retryVars>>

-----------------------------------------------------------------------------
(* pull_model, run_model (src/cloudlamma.py:469-491, 522-548) *)

DriverIdle ==
    /\ dpc = "idle" /\ model_name = <<>> /\ modelProcs = <<>>
    /\ driverSleeps = 0 /\ dmsg = "none"

\* The frame is gone once the caller goes on.
DriverReset ==
    /\ dpc' = "idle" /\ model_name' = <<>> /\ modelProcs' = <<>>
    /\ driverSleeps' = 0 /\ dmsg' = "none"

\* config.default_model, and three strings a command line can carry.
default_model == <<"l", "l", "a", "m", "a", "3">>
ArgChars == {"a", "7", ":", "-", ";", "$", " ", "\n"}
DriverNames == {s \in StringsUpTo(MaxArgLen) : AllIn(s, ArgChars)}
                 \cup {default_model, <<"a", " ", ";">>, <<"a", "\n">>, <<" ", "a">>}

\* Lines 473-475 / 532-534: except ValueError: print the error and return.
RejectsNothing(r) == FALSE
Rejects(r) == r.kind = "raise"

\* Lines 471-481 / 530-540: sanitize, then the port check.
DriverEnter(which, name) ==
    LET r == sanitize_model_name(name) IN
    /\ op = "none" /\ opsLeft > 0 /\ process = "running"
    /\ op' = which
    /\ opsLeft' = opsLeft - 1
    /\ argName' = name
    /\ modelProcs' = <<>>
    /\ driverSleeps' = 0
    /\ IF Rejects(r)
         THEN /\ dmsg' = "invalid"
              /\ dpc' = "done"
              /\ model_name' = name
              /\ lsofRuns' = 0
              /\ spc' = spc
         ELSE /\ dmsg' = "none"
              \* line 472 assigns only when sanitize_model_name returned
              /\ model_name' = IF r.kind = "return" THEN r.what ELSE name
              /\ lsofRuns' = 1
              /\ IF ~listening
                   THEN dpc' = "starting" /\ spc' = "call"
                   ELSE dpc' = "spawn" /\ spc' = spc
    /\ UNCHANGED <<hostVars, process, listeningAtCall, serverSpawns, pollResults,
                   pollSleeps, startMsg, healthVars, retryVars>>

pull_model == \E name \in DriverNames : DriverEnter("pull_model", name)
run_model == \E name \in DriverNames : DriverEnter("run_model", name)

\* Lines 481-483 / 540-542: start_ollama has returned; time.sleep(3).  An error
\* raised by start_ollama leaves the driver.
DriverResume ==
    /\ dpc = "starting"
    /\ spc \in {"done", "raised"}
    /\ IF spc = "done"
         THEN dpc' = "spawn" /\ driverSleeps' = driverSleeps + 3
         ELSE dpc' = "raised" /\ driverSleeps' = driverSleeps
    /\ StartReset
    /\ UNCHANGED <<model_name, modelProcs, dmsg>>
    /\ UNCHANGED <<argName, hostVars, callerVars, healthVars, retryVars>>

\* Lines 486-491 / 546: the subprocess, with model_name as one argument.
DriverSpawn ==
    /\ dpc = "spawn"
    /\ IF ollamaInstalled
         THEN /\ dpc' = "running"
              /\ modelProcs' = Append(modelProcs,
                     <<"ollama", IF op = "pull_model" THEN "pull" ELSE "run", model_name>>)
         ELSE dpc' = "raised" /\ modelProcs' = modelProcs
    /\ UNCHANGED <<model_name, driverSleeps, dmsg>>
    /\ UNCHANGED <<argName, hostVars, callerVars, startVars, healthVars, retryVars>>

\* Lines 522-526 / 546-548: the subprocess has exited.
DriverExit ==
    /\ dpc = "running"
    /\ \E code \in {0, 1} :
         dmsg' = IF code # 0 THEN "failed"
                 ELSE IF op = "pull_model" THEN "success" ELSE dmsg
    /\ dpc' = "done"
    /\ UNCHANGED <<model_name, modelProcs, driverSleeps>>
    /\ UNCHANGED <<argName, hostVars, callerVars, startVars, healthVars, retryVars>>

-----------------------------------------------------------------------------
(* The output loop of pull_model (src/cloudlamma.py:493-519) *)

Min(a, b) == IF a < b THEN a ELSE b

\* A line of process.stdout without its line end: its text between lead
\* leading and trail trailing blanks.  A line of blanks only has text "".
Line(lead, text, trail) == [lead |-> lead, text |-> text, trail |-> trail]
\* str.strip() (line 498)
strip(line) == Line(0, line.text, 0)
PullingManifest == Line(0, "pulling manifest", 0)
EmptyLine == Line(0, "", 0)

\* line 510: the line is printed unless it repeats the last printed one or
\* is empty
PrintsAlways(line, last) == line # EmptyLine
PrintsLine(line, last) == line # last /\ line # EmptyLine

\* What print() wrote: the progress indicator with its dots (end="\r"),
\* a bare newline, or a line.
Indicator(dots) == [kind |-> "indicator", line |-> EmptyLine, dots |-> dots]
Newline == [kind |-> "newline", line |-> EmptyLine, dots |-> 0]
Printed(line) == [kind |-> "line", line |-> line, dots |-> 0]

\* lines 502-507: the indicator is written at the first manifest line and at
\* every fifth
IndicatorUpdate(count) ==
    IF count = 1 THEN <<Indicator(Min(count, 3))>>
    ELSE IF count % 5 = 0 THEN <<Indicator(Min(count \div 5, 10))>>
    ELSE <<>>

\* One pass of the for loop (lines 497-515).
PullLine ==
    /\ ppc = "loop" /\ ppos < Len(pullIn)
    /\ ppos' = ppos + 1
    /\ LET line == strip(pullIn[ppos + 1])
       IN  IF line = PullingManifest
             THEN /\ manifest_count' = manifest_count + 1
                  /\ pout' = pout \o IndicatorUpdate(manifest_count + 1)
                  /\ UNCHANGED last_message
             ELSE IF PrintsLine(line, last_message)
               THEN /\ pout' = pout \o (IF manifest_count > 0 THEN <<Newline>> ELSE <<>>)
                                    \o <<Printed(line)>>
                    /\ manifest_count' = 0
                    /\ last_message' = line
               ELSE UNCHANGED <<manifest_count, last_message, pout>>
    /\ UNCHANGED <<pullIn, ppc>>

\* The stream ends: lines 518-519.
PullLoopEnds ==
    /\ ppc = "loop" /\ ppos = Len(pullIn)
    /\ ppc' = "done"
    /\ pout' = pout \o (IF manifest_count > 0 THEN <<Newline>> ELSE <<>>)
    /\ UNCHANGED <<pullIn, ppos, last_message, manifest_count>>

\* The streams followed: a run of "pulling manifest" lines, then up to
\* MaxPullLines lines of the sample.
SampleLines ==
    {PullingManifest, EmptyLine, Line(0, "verifying sha256 digest", 0),
     Line(0, "success", 0), Line(1, "success", 0), Line(1, "", 0),
     Line(0, "pulling manifest", 1)}
ManifestRuns == {0, 1, 5, 12}
PullInit ==
    /\ \E n \in ManifestRuns : \E k \in 0..MaxPullLines :
         \E rest \in [1..k -> SampleLines] :
            pullIn = [i \in 1..n |-> PullingManifest] \o rest
    /\ ppc = "loop" /\ ppos = 0
    /\ last_message = EmptyLine /\ manifest_count = 0
    /\ pout = <<>>
PullUnused ==
    /\ pullIn = <<>> /\ ppc = "idle" /\ ppos = 0
    /\ last_message = EmptyLine /\ manifest_count = 0 /\ pout = <<>>

-----------------------------------------------------------------------------
(* The caller (src/cloudlamma.py:616-713) *)

\* Lines 693-694: start_ollama called from run().
start_ollama ==
    /\ op = "none" /\ opsLeft > 0 /\ process = "running"
    /\ op' = "start_ollama"
    /\ opsLeft' = opsLeft - 1
    /\ lsofRuns' = 0
    /\ spc' = "call"
    /\ argName' = <<>>
    /\ DriverReset
    /\ UNCHANGED <<hostVars, process, listeningAtCall, serverSpawns, pollResults,
                   pollSleeps, startMsg, healthVars, retryVars>>

\* The operation is over: control is back in run(), or an error has reached
\* the handler of lines 711-713, which exits with status 1.
OperationEnds ==
    /\ \/ op = "start_ollama" /\ spc \in {"done", "raised"}
       \/ op \in {"pull_model", "run_model"} /\ dpc \in {"done", "raised"}
    /\ op' = "none"
    /\ process' = IF "raised" \in {spc, dpc} THEN "exit1" ELSE process
    /\ lsofRuns' = 0
    /\ argName' = <<>>
    /\ StartReset
    /\ DriverReset
    /\ UNCHANGED <<hostVars, opsLeft, healthVars, retryVars>>

ServiceInit ==
    /\ listening \in BOOLEAN
    /\ ollamaInstalled \in BOOLEAN
    /\ op = "none" /\ opsLeft = MaxOps /\ process = "running" /\ lsofRuns = 0
    /\ DriverIdle /\ StartIdle /\ HealthIdle

ServiceUnused ==
    /\ listening = FALSE /\ ollamaInstalled = FALSE
    /\ op = "none" /\ opsLeft = 0 /\ process = "running" /\ lsofRuns = 0
    /\ DriverIdle /\ StartIdle /\ HealthIdle

-----------------------------------------------------------------------------
(* The tunnel client and start_temp_tunnel (src/cloudlamma.py:343-396) *)

\* A line is a sequence of pieces; "https://" and ".trycloudflare.com" are the
\* two literal parts of the pattern of line 372.
LineBlank == <<" ">>
LineInfo == <<"INF", " ", "Starting", " ", "tunnel">>
LineUrl == <<"INF", " ", "https://", "abc123", ".trycloudflare.com">>
LineTwoUrls == <<"https://", "docs", " ", "https://", "xyz789", ".trycloudflare.com", " ">>
LineSamples == {LineBlank, LineInfo, LineUrl, LineTwoUrls}

\* Line 372: re.search(r"https://.*?\.trycloudflare\.com", line).group(0), or
\* None: the leftmost "https://" that some ".trycloudflare.com" follows, up
\* to the nearest one.
ReSearch(line) ==
    LET Starts == {i \in 1..Len(line) :
                     /\ line[i] = "https://"
                     /\ \E j \in (i + 1)..Len(line) : line[j] = ".trycloudflare.com"}
    IN IF Starts = {} THEN None
       ELSE LET i == CHOOSE a \in Starts : \A b \in Starts : a <= b
                j == CHOOSE a \in (i + 1)..Len(line) :
                       /\ line[a] = ".trycloudflare.com"
                       /\ \A b \in (i + 1)..(a - 1) : line[b] # ".trycloudflare.com"
            IN Some(SubSeq(line, i, j))

RECURSIVE SeqsUpTo(_, _)
SeqsUpTo(S, n) ==
    IF n = 0 THEN {<<>>}
    ELSE LET shorter == SeqsUpTo(S, n - 1) IN
         shorter \cup {Append(s, x) : s \in {t \in shorter : Len(t) = n - 1}, x \in S}

RECURSIVE Noise(_)
Noise(n) == IF n <= 0 THEN <<>> ELSE <<LineInfo>> \o Noise(n - 1)

\* Streams: up to MaxLines sample lines, alone or after enough other lines to
\* end at the edge of the URL window.
NoiseLens == {0, config_tunnel_url_wait - 1, config_tunnel_url_wait}
Streams == {Noise(n) \o t : n \in NoiseLens, t \in SeqsUpTo(LineSamples, MaxLines)}

ClientNone ==
    /\ clientState = "none" /\ stream = <<>> /\ avail = 0
    /\ staysAlive = FALSE /\ obeysTerm = FALSE /\ termSent = FALSE

TunnelIdle ==
    /\ tpc = "idle" /\ tmpFile = "absent" /\ iter = 0 /\ readCount = 0
    /\ tunnel_url = None /\ echoed = 0 /\ tlog = <<>> /\ texc = "none"


\* The client exits: on its own, or because it was sent SIGTERM and obeys.  What
\* it had written and was not read yet stays readable; the rest is never written.
ClientExits ==
    /\ clientState = "running"
    /\ ~staysAlive \/ (termSent /\ obeysTerm)
    /\ clientState' = "exited"
    /\ avail' \in readCount..Min(readCount + MaxBacklog, Len(stream))
    /\ UNCHANGED <<verbose, cloudflaredInstalled, stream, staysAlive, obeysTerm, termSent>>
    /\ UNCHANGED tunnelVars

\* Lines 391-396: the finally clause unlinks the file however the try block ends.
FileAfterExitNoFinally(raised) == IF raised THEN "exists" ELSE "removed"
FileAfterExit(raised) == "removed"

\* The function ends: by return (exc = "none") or with exc propagating.
TunnelFinish(events, exc) ==
    /\ tlog' = tlog \o events \o <<"unlink">>
                 \o <<IF exc = "none" THEN "return" ELSE "raise">>
    /\ tmpFile' = FileAfterExit(exc # "none")
    /\ texc' = exc
    /\ tpc' = IF exc = "none" THEN "done" ELSE "raised"

\* Lines 345-349: the temporary file is created and closed.
start_temp_tunnel ==
    /\ tpc = "idle" /\ tmpFile = "absent"
    /\ tmpFile' = "exists"
    /\ tpc' = "spawn"
    /\ UNCHANGED <<iter, readCount, tunnel_url, echoed, tlog, texc>>
    /\ UNCHANGED clientVars

\* Lines 352-360: Popen.  It raises FileNotFoundError when there is no
\* cloudflared executable; otherwise a client starts, with some behaviour.
TunnelSpawn ==
    /\ tpc = "spawn"
    /\ IF cloudflaredInstalled
         THEN /\ clientState' = "running"
              /\ stream' \in Streams
              /\ avail' = Len(stream')
              /\ staysAlive' \in BOOLEAN
              /\ obeysTerm' \in BOOLEAN
              /\ tpc' = "poll"
              /\ UNCHANGED <<tmpFile, tlog, texc>>
         ELSE /\ TunnelFinish(<<>>, "FileNotFoundError")
              /\ UNCHANGED <<clientState, stream, avail, staysAlive, obeysTerm>>
    /\ UNCHANGED <<verbose, cloudflaredInstalled, termSent, iter, readCount, tunnel_url, echoed>>

\* Line 361: for _ in range(config.tunnel_url_wait)
WindowOpenOneMore(n) == n <= config_tunnel_url_wait
WindowOpen(n) == n < config_tunnel_url_wait

\* Lines 361-364 and 389-390: the loop head and process.poll().
TunnelPoll ==
    /\ tpc = "poll"
    /\ IF ~WindowOpen(iter)
         THEN TunnelFinish(<<"failed_url">>, "none") /\ UNCHANGED iter
         ELSE /\ iter' = iter + 1
              /\ IF clientState = "exited"
                   THEN TunnelFinish(<<"terminated_unexpectedly", "failed_url">>, "none")
                   ELSE tpc' = "read" /\ UNCHANGED <<tmpFile, tlog, texc>>
    /\ UNCHANGED <<readCount, tunnel_url, echoed>>
    /\ UNCHANGED clientVars

\* Line 369-373: the match is looked for whether or not the line is echoed.
MatchOnlyIfVerbose(v, line) == IF v THEN ReSearch(line) ELSE None
MatchOf(v, line) == ReSearch(line)

\* Lines 366-381: readline() returns the next line, or "" at end of file; it
\* blocks while the client runs and has written nothing more.
TunnelRead ==
    /\ tpc = "read"
    /\ readCount < avail \/ clientState = "exited"
    /\ LET line == IF readCount < avail THEN Strip(stream[readCount + 1]) ELSE <<>>
           m == IF line = <<>> THEN None ELSE MatchOf(verbose, line)
       IN /\ readCount' = IF readCount < avail THEN readCount + 1 ELSE readCount
          /\ echoed' = IF line # <<>> /\ verbose THEN echoed + 1 ELSE echoed
          /\ IF m # None
               THEN /\ tunnel_url' = m
                    /\ tlog' = Append(tlog, "url")
                    /\ tpc' = "active"
               ELSE /\ UNCHANGED <<tunnel_url, tlog>>
                    /\ tpc' = "sleep"
    /\ UNCHANGED <<tmpFile, iter, texc>>
    /\ UNCHANGED clientVars

\* Line 376: time.sleep(1)
TunnelSleep ==
    /\ tpc = "sleep"
    /\ tpc' = "poll"
    /\ UNCHANGED <<tmpFile, iter, readCount, tunnel_url, echoed, tlog, texc>>
    /\ UNCHANGED clientVars

\* Line 383: the condition of the idle loop is the constant True, whatever
\* has become of the client.
IdleWhileRunning(exited) == ~exited
IdleWhile(exited) == TRUE

\* Lines 383-384: while True: time.sleep(1)
TunnelIdleSleep ==
    /\ tpc = "active"
    /\ IF IdleWhile(clientState = "exited")
         THEN UNCHANGED tunnelVars
         ELSE /\ TunnelFinish(<<>>, "none")
              /\ UNCHANGED <<iter, readCount, tunnel_url, echoed>>
    /\ UNCHANGED clientVars

\* Lines 385-387: KeyboardInterrupt in the idle wait; process.terminate().
TunnelInterruptActive ==
    /\ tpc = "active"
    /\ tlog' = tlog \o <<"stopping", "terminate">>
    /\ termSent' = TRUE
    /\ tpc' = "waiting"
    /\ UNCHANGED <<tmpFile, iter, readCount, tunnel_url, echoed, texc>>
    /\ UNCHANGED <<verbose, cloudflaredInstalled, clientState, stream, avail, staysAlive, obeysTerm>>

\* Line 388: process.wait() returns once the client has exited.
TunnelWaitReturns ==
    /\ tpc = "waiting"
    /\ clientState = "exited"
    /\ TunnelFinish(<<"waited">>, "none")
    /\ UNCHANGED <<iter, readCount, tunnel_url, echoed>>
    /\ UNCHANGED clientVars

\* KeyboardInterrupt in readline(), in the loop's sleep or in process.wait():
\* no except clause of start_temp_tunnel covers these.
TunnelInterruptOther ==
    /\ tpc \in {"read", "sleep", "waiting"}
    /\ TunnelFinish(<<>>, "KeyboardInterrupt")
    /\ UNCHANGED <<iter, readCount, tunnel_url, echoed>>
    /\ UNCHANGED clientVars

TunnelInit ==
    /\ verbose \in BOOLEAN
    /\ cloudflaredInstalled \in BOOLEAN
    /\ ClientNone /\ TunnelIdle

TunnelUnused ==
    /\ verbose = FALSE /\ cloudflaredInstalled = FALSE
    /\ ClientNone /\ TunnelIdle

-----------------------------------------------------------------------------
(* The installer (src/cloudlamma.py:175-298) *)

\* One step of an install: an external command with its timeout in seconds
\* (None: no timeout argument), the architecture lookup, or the config write.
Run(cmd, t) == [kind |-> "run", cmd |-> cmd, timeout |-> t]
LookupUrl == [kind |-> "lookup", cmd |-> "_get_cloudflared_url", timeout |-> None]
WriteConfig == [kind |-> "config", cmd |-> "config.yml", timeout |-> None]

\* Lines 179-200 and 222-247: brew is asked for first, then apt.
PkgMgr == IF hasBrew THEN "brew" ELSE IF hasApt THEN "apt" ELSE "none"

\* Line 298: subprocess.run([...], check=True), no timeout.
ServiceInstall == Run("cloudflared service install", None)

Plan(which, mgr) ==
    IF mgr = "brew" THEN
        <<Run(IF which = "ollama" THEN "brew install ollama" ELSE "brew install cloudflared",
              Some(config_install_timeout))>>
    ELSE IF mgr = "apt" /\ which = "ollama" THEN
        <<Run("apt update", Some(config_update_timeout)),
          Run("curl install.sh", Some(config_download_timeout)),
          Run("sh", Some(config_install_timeout))>>
    ELSE IF mgr = "apt" THEN
        <<Run("apt update", Some(config_update_timeout)),
          Run("uname -m", Some(config_health_check_timeout)),
          LookupUrl,
          Run("curl cloudflared.deb", Some(config_download_timeout)),
          Run("dpkg -i", Some(config_service_timeout)),
          WriteConfig,
          ServiceInstall>>
    ELSE <<>>

\* Lines 271-283.
Amd64Deb == "cloudflared-linux-amd64.deb"
Arm64Deb == "cloudflared-linux-arm64.deb"
ArmhfDeb == "cloudflared-linux-armhf.deb"
I386Deb == "cloudflared-linux-386.deb"
GetUrlDefaultAmd64(a) ==
    IF a \in {"aarch64", "arm64"} THEN Some(Arm64Deb)
    ELSE IF a \in {"armv7l", "armhf"} THEN Some(ArmhfDeb)
    ELSE IF a \in {"i386", "i686"} THEN Some(I386Deb)
    ELSE Some(Amd64Deb)
_get_cloudflared_url(a) ==
    IF a \in {"x86_64", "amd64"} THEN Some(Amd64Deb)
    ELSE IF a \in {"aarch64", "arm64"} THEN Some(Arm64Deb)
    ELSE IF a \in {"armv7l", "armhf"} THEN Some(ArmhfDeb)
    ELSE IF a \in {"i386", "i686"} THEN Some(I386Deb)
    ELSE None
\* What uname -m may print.
Archs == {"x86_64", "amd64", "aarch64", "arm64", "armv7l", "armhf", "i386", "i686",
          "riscv64", "ppc64le", "X86_64", ""}

\* Lines 291-295: the four lines written to config.yml.
CompleteConfig ==
    <<"tunnel: ollama-tunnel", "credentials-file: ~/.cloudflared/ollama-tunnel.json",
      "ingress:", "  - service: http://localhost:11434">>
OldConfig == <<"tunnel: mine">>

ToolOutcomes == {"ok", "nonzero", "hang", "missing"}

\* The exception a finished subprocess call raises, or "none": check=True
\* gives CalledProcessError, the timeout gives TimeoutExpired, a command that
\* is not on the search path gives FileNotFoundError.
StepError(o) ==
    IF o = "nonzero" THEN "CalledProcessError"
    ELSE IF o = "hang" THEN "TimeoutExpired"
    ELSE IF o = "missing" THEN "FileNotFoundError"
    ELSE "none"

\* Lines 201-216 and 248-263: each except clause prints its message and calls
\* sys.exit(1).
InstallHandlerReturnsOnExitCode(exc) ==
    IF exc = "TimeoutExpired" THEN [msg |-> "timeout", exits |-> TRUE]
    ELSE IF exc = "CalledProcessError" THEN [msg |-> "exit_code", exits |-> FALSE]
    ELSE [msg |-> "unexpected", exits |-> TRUE]
InstallHandler(exc) ==
    IF exc = "TimeoutExpired" THEN [msg |-> "timeout", exits |-> TRUE]
    ELSE IF exc = "CalledProcessError" THEN [msg |-> "exit_code", exits |-> TRUE]
    ELSE [msg |-> "unexpected", exits |-> TRUE]

InstallIdle ==
    /\ ipc = "idle" /\ iwhich = "none" /\ istep = 0
    /\ toolNow = "none" /\ toolLater = "none" /\ stepRuns = 0
    /\ arch = "none" /\ url = None

\* The install ends: with exc = "none" by return, otherwise through the
\* except clause for exc.  Lines 264-269: cloudflared.deb is removed.
InstallFinish(exc) ==
    LET h == InstallHandler(exc) IN
    /\ imsg' = IF exc = "none" THEN "success" ELSE h.msg
    /\ ipc' = IF exc # "none" /\ h.exits THEN "exit" ELSE "done"
    /\ debFile' = IF iwhich = "cloudflared" THEN FALSE ELSE debFile

\* Lines 175-179, 195-200 / 218-222, 241-247: the call, and the choice of the
\* package manager.
InstallEnter(which) ==
    /\ op = "none" /\ opsLeft > 0 /\ process = "running"
    /\ ipc = "idle"
    /\ op' = IF which = "ollama" THEN "install_ollama" ELSE "install_cloudflared"
    /\ opsLeft' = opsLeft - 1
    /\ iwhich' = which
    /\ IF PkgMgr = "none"
         THEN /\ imsg' = "unsupported_pm"
              /\ ipc' = "exit"
              /\ istep' = 0
         ELSE /\ imsg' = "installing"
              /\ ipc' = "next"
              /\ istep' = 1
    /\ UNCHANGED <<toolNow, toolLater, stepRuns, arch, url>>
    /\ UNCHANGED <<installHost, argName, hostVars, process, lsofRuns, driverVars, startVars,
                   healthVars, retryVars>>

install_ollama == ~ollamaInstalled /\ InstallEnter("ollama")
install_cloudflared == ~cloudflaredInstalled /\ InstallEnter("cloudflared")

Step == Plan(iwhich, PkgMgr)[istep]

\* subprocess.run / check_output is called: the tool does what it does.
InstallRun ==
    /\ ipc = "next" /\ Step.kind = "run"
    /\ ipc' = "run"
    /\ toolNow' \in ToolOutcomes
    /\ toolLater' \in {"ok", "nonzero"}
    /\ stepRuns' = 1
    /\ UNCHANGED <<iwhich, istep, arch, url, imsg>>
    /\ UNCHANGED installHost

\* The step after this one, or the end of the install.
InstallAdvance ==
    IF istep < Len(Plan(iwhich, PkgMgr))
      THEN /\ ipc' = "next" /\ istep' = istep + 1
           /\ UNCHANGED <<imsg, debFile>>
      ELSE InstallFinish("none") /\ UNCHANGED istep

\* The call returns or raises.  A tool that hangs is ended by the timeout,
\* when the call has one.
InstallRunEnds ==
    /\ ipc = "run"
    /\ toolNow # "hang" \/ Step.timeout # None
    /\ IF toolNow = "ok"
         THEN /\ IF Step.cmd = "curl cloudflared.deb"
                   THEN /\ ipc' = "next" /\ istep' = istep + 1 /\ debFile' = TRUE
                        /\ UNCHANGED imsg
                   ELSE InstallAdvance
              /\ arch' \in IF Step.cmd = "uname -m" THEN Archs ELSE {arch}
         ELSE /\ InstallFinish(StepError(toolNow))
              /\ UNCHANGED <<istep, arch>>
    /\ UNCHANGED <<iwhich, toolNow, toolLater, stepRuns, url>>
    /\ UNCHANGED <<hasBrew, hasApt, configBefore, configFile>>

\* Lines 229-236.
InstallLookup ==
    /\ ipc = "next" /\ Step.kind = "lookup"
    /\ url' = _get_cloudflared_url(arch)
    /\ IF url' = None
         THEN /\ imsg' = "unsupported_arch" /\ ipc' = "exit" /\ debFile' = FALSE
              /\ UNCHANGED istep
         ELSE InstallAdvance
    /\ UNCHANGED <<iwhich, toolNow, toolLater, stepRuns, arch>>
    /\ UNCHANGED <<hasBrew, hasApt, configBefore, configFile>>

\* Lines 287-291: open(config_path, "w") creates or truncates the file.
ConfigOpen ==
    /\ ipc = "next" /\ Step.kind = "config"
    /\ configFile' = Some(<<>>)
    /\ ipc' = "config"
    /\ UNCHANGED <<iwhich, istep, toolNow, toolLater, stepRuns, arch, url, imsg>>
    /\ UNCHANGED <<hasBrew, hasApt, configBefore, debFile>>

\* Lines 292-295: the four writes and the close.  The lines reach the file in
\* order; an OSError (a full disk) stops them part of the way.
ConfigWrite ==
    /\ ipc = "config"
    /\ \E n \in 0..Len(CompleteConfig) :
         /\ configFile' = Some(SubSeq(CompleteConfig, 1, n))
         /\ IF n = Len(CompleteConfig)
              THEN InstallAdvance
              ELSE InstallFinish("OSError") /\ UNCHANGED istep
    /\ UNCHANGED <<iwhich, toolNow, toolLater, stepRuns, arch, url>>
    /\ UNCHANGED <<hasBrew, hasApt, configBefore>>

\* install_ollama / install_cloudflared is over: control is back in run(), or
\* SystemExit(1) has ended the process.
InstallEnds ==
    /\ op \in {"install_ollama", "install_cloudflared"}
    /\ ipc \in {"done", "exit"}
    /\ op' = "none"
    /\ process' = IF ipc = "exit" THEN "exit1" ELSE process
    /\ ollamaInstalled' = (ollamaInstalled \/ (iwhich = "ollama" /\ ipc = "done"))
    /\ cloudflaredInstalled' =
          (cloudflaredInstalled \/ (iwhich = "cloudflared" /\ ipc = "done"))
    /\ ipc' = "idle" /\ iwhich' = "none" /\ istep' = 0
    /\ toolNow' = "none" /\ toolLater' = "none" /\ stepRuns' = 0
    /\ arch' = "none" /\ url' = None
    /\ UNCHANGED <<imsg, installHost, argName, listening, opsLeft, lsofRuns, driverVars,
                   startVars, healthVars, retryVars>>

\* The names pull_model turns away (lines 471-475).
InvalidNames == {n \in DriverNames : Rejects(sanitize_model_name(n))}
pull_invalid == \E name \in InvalidNames : DriverEnter("pull_model", name)

InstallHostInit ==
    /\ hasBrew \in BOOLEAN /\ hasApt \in BOOLEAN
    /\ configBefore \in {None, Some(OldConfig), Some(CompleteConfig)}
    /\ configFile = configBefore
    /\ debFile = FALSE

InstallUnused ==
    /\ hasBrew = FALSE /\ hasApt = FALSE /\ configBefore = None /\ configFile = None
    /\ debFile = FALSE /\ InstallIdle /\ imsg = "none"

-----------------------------------------------------------------------------
(* Exceptions on their way to the handlers of lines 705-713 *)

\* A call of the program, the functions and try blocks it is made in
\* (outermost first), and the exceptions it raises of itself.  Ctrl-C raises
\* KeyboardInterrupt in any of them.
Site(at, stack, raises) == [at |-> at, stack |-> stack, raises |-> raises]
ToolErrors == {"CalledProcessError", "TimeoutExpired", "FileNotFoundError"}
InstallSites ==
    {Site(at, <<"main", "run", "install_ollama">>, ToolErrors) :
        at \in {"subprocess.run:180", "subprocess.run:182", "subprocess.run:188",
                "subprocess.run:194"}}
    \cup
    {Site(at, <<"main", "run", "install_cloudflared">>, ToolErrors) :
        at \in {"subprocess.run:223", "subprocess.run:225", "check_output:228",
                "subprocess.run:238", "subprocess.run:239"}}
    \cup
    {Site("open:291", <<"main", "run", "install_cloudflared", "_setup_cloudflared_config">>,
          {"OSError"}),
     Site("subprocess.run:298",
          <<"main", "run", "install_cloudflared", "_setup_cloudflared_config">>,
          {"CalledProcessError", "FileNotFoundError"})}
\* The ways to start_ollama and to pull_model: lines 693-694, 481, 540, 699 and 605.
ToStart == {<<"main", "run", "start_ollama">>, <<"main", "run", "pull_model", "start_ollama">>,
            <<"main", "run", "run_model", "start_ollama">>}
ToPull == {<<"main", "run", "pull_model">>, <<"main", "run", "ensure_default_model", "pull_model">>}
ServiceSites ==
    {Site("time.sleep:339", st, {}) : st \in ToStart}
    \cup
    \* the backoff sleep is in the except clause of line 158, outside its try
    {Site("time.sleep:167", st \o <<"is_ollama_responsive">>, {}) : st \in ToStart}
    \cup
    {Site("requests.get:316", st \o <<"is_ollama_responsive", r, "check_health">>,
          {"ConnectionError", "ValueError"}) :
        st \in ToStart, r \in {"retry_operation", "retry_operation_last"}}
    \cup
    {Site("sanitize_model_name:472", st \o <<"pull_model_try471">>, {"ValueError"}) : st \in ToPull}
    \cup
    {Site(at, st, {}) : at \in {"readline:497", "process.wait:522"}, st \in ToPull}
    \cup
    {Site("subprocess.run:546", <<"main", "run", "run_model", "run_model_try545">>,
          {"CalledProcessError", "FileNotFoundError"}),
     Site("subprocess.run:580",
          <<"main", "run", "ensure_default_model", "get_installed_models_try579">>,
          {"CalledProcessError", "FileNotFoundError"}),
     Site("subprocess.run:302", <<"main", "run", "is_ollama_running">>, {"FileNotFoundError"}),
     Site("input:613", <<"main", "run", "prompt_for_confirmation">>, {})}
TunnelStack == <<"main", "run", "start_temp_tunnel_try351">>
TunnelWaitSite == Site("process.wait:388", TunnelStack, {})
TunnelSites ==
    {Site("Popen:352", TunnelStack, {"FileNotFoundError"}),
     Site("readline:366", TunnelStack, {}),
     Site("time.sleep:376", TunnelStack, {}),
     Site("time.sleep:384", TunnelStack \o <<"start_temp_tunnel_try382">>, {})}
Sites == InstallSites \cup ServiceSites \cup TunnelSites

\* "except Exception" catches every class but these two.
IsExceptionAll(cls) == TRUE
IsException(cls) == cls \notin {"KeyboardInterrupt", "SystemExit"}

\* What a function or try block does with an exception that reaches it.
Propagate(cls, msg) == [do |-> "propagate", exc |-> cls, msg |-> msg]
Resume(msg) == [do |-> "resume", exc |-> "none", msg |-> msg]
Exit(code, msg) == [do |-> code, exc |-> "none", msg |-> msg]
Handle(frame, cls) ==
    IF frame = "main" THEN
        \* lines 709-713; an uncaught SystemExit(1) ends the process with status 1
        IF cls = "KeyboardInterrupt" THEN Exit("exit0", "cancelled")
        ELSE IF IsException(cls) THEN Exit("exit1", "error_occurred")
        ELSE Exit("exit1", "none")
    ELSE IF frame \in {"install_ollama", "install_cloudflared"} THEN
        \* lines 201-216, 248-263
        IF cls = "TimeoutExpired" THEN Propagate("SystemExit", "error_timeout")
        ELSE IF cls = "CalledProcessError" THEN Propagate("SystemExit", "error_exit_code")
        ELSE IF IsException(cls) THEN Propagate("SystemExit", "error_unexpected")
        ELSE Propagate(cls, "none")
    ELSE IF frame = "retry_operation" THEN
        \* lines 158-167, an attempt before the last
        IF Recoverable(cls) THEN Resume("warn_retry") ELSE Propagate(cls, "none")
    ELSE IF frame = "is_ollama_responsive" THEN
        \* lines 320-321
        IF IsException(cls) THEN Resume("none") ELSE Propagate(cls, "none")
    ELSE IF frame = "pull_model_try471" THEN
        \* lines 473-475
        IF cls = "ValueError" THEN Resume("error_invalid_name") ELSE Propagate(cls, "none")
    ELSE IF frame = "run_model_try545" THEN
        \* lines 547-548
        IF cls = "CalledProcessError" THEN Resume("error_run_model") ELSE Propagate(cls, "none")
    ELSE IF frame = "get_installed_models_try579" THEN
        \* lines 598-599
        IF cls = "CalledProcessError" THEN Resume("none") ELSE Propagate(cls, "none")
    ELSE IF frame = "start_temp_tunnel_try382" THEN
        \* lines 385-388: "Stopping tunnel...", terminate, then process.wait()
        IF cls = "KeyboardInterrupt" THEN [do |-> "wait", exc |-> "none", msg |-> "stopping"]
        ELSE Propagate(cls, "none")
    ELSE Propagate(cls, "none")

Pop(st) == SubSeq(st, 1, Len(st) - 1)
Said(msg) == IF msg = "none" THEN umsgs ELSE Append(umsgs, msg)

UnwindIdle ==
    /\ usite = Site("none", <<>>, {}) /\ ustack = <<>> /\ ustatus = "resumed"
    /\ uexc = "none" /\ uraised = "none" /\ umsgs = <<>>

\* The program is in one of its calls.
UnwindInit ==
    /\ usite \in Sites /\ ustack = usite.stack /\ ustatus = "waiting"
    /\ uexc = "none" /\ uraised = "none" /\ umsgs = <<>>

\* The call raises: an error of its own, or KeyboardInterrupt.
UnwindRaise ==
    /\ ustatus = "waiting" /\ process = "running"
    /\ \E cls \in usite.raises \cup {"KeyboardInterrupt"} :
         /\ uexc' = cls
         /\ uraised' = IF uraised = "none" THEN cls ELSE uraised
    /\ ustatus' = "unwinding"
    /\ UNCHANGED <<usite, ustack, umsgs, process>>

\* The innermost function or try block deals with the exception.
UnwindStep ==
    /\ ustatus = "unwinding" /\ ustack # <<>>
    /\ LET h == Handle(ustack[Len(ustack)], uexc) IN
       /\ umsgs' = Said(h.msg)
       /\ uexc' = h.exc
       /\ ustack' = Pop(ustack)
       /\ ustatus' = IF h.do = "propagate" THEN "unwinding"
                     ELSE IF h.do = "resume" THEN "resumed"
                     ELSE IF h.do = "wait" THEN "waiting"
                     ELSE "exited"
       /\ usite' = IF h.do = "wait" THEN TunnelWaitSite ELSE usite
       /\ process' = IF h.do \in {"exit0", "exit1"} THEN h.do ELSE process
    /\ UNCHANGED uraised

\* Line 388 and on: process.wait() returns, start_temp_tunnel returns, run()
\* returns (line 702 is its last statement) and the process ends.
UnwindWaitReturns ==
    /\ ustatus = "waiting" /\ usite = TunnelWaitSite /\ process = "running"
    /\ ustatus' = "exited"
    /\ ustack' = <<>>
    /\ process' = "exit0"
    /\ UNCHANGED <<usite, uexc, uraised, umsgs>>

-----------------------------------------------------------------------------
(* Specifications *)

vars == <<retryIn, retryVars, argName, validatorVars, serviceVars, clientVars, tunnelVars,
          installHost, installVars, unwindVars, pullVars>>

\* The parts of the state only the later specifications use.
otherVars == <<clientVars, tunnelVars, installHost, installVars, unwindVars, pullVars>>
OthersUnused == TunnelUnused /\ InstallUnused /\ UnwindIdle /\ PullUnused

RetryInputsUnused ==
    /\ opScript = <<>> /\ argMax = None /\ argDelay = None /\ argBackoff = None

\* retry_operation under the scripted operation.
SpecRetryInit ==
    RetryHarnessInit /\ argName = <<>> /\ ValidatorIdle /\ ServiceUnused /\ OthersUnused
SpecRetryNext ==
    \/ CallRetry /\ UNCHANGED <<argName, validatorVars, serviceVars, otherVars>>
    \/ OperationCall /\ UNCHANGED <<argName, validatorVars, serviceVars, otherVars>>
    \/ BackoffSleep /\ UNCHANGED <<argName, validatorVars, serviceVars, otherVars>>
SpecRetry == SpecRetryInit /\ [][SpecRetryNext]_vars

\* The validator on every sample string.
SpecValidatorInit ==
    ValidatorInit /\ RetryInputsUnused /\ RetryIdle /\ ServiceUnused /\ OthersUnused
SpecValidatorNext ==
    \/ ValidateName /\ UNCHANGED <<retryIn, retryVars, serviceVars, otherVars>>
    \/ SanitizeName /\ UNCHANGED <<retryIn, retryVars, serviceVars, otherVars>>
    \/ SanitizeAgain /\ UNCHANGED <<retryIn, retryVars, serviceVars, otherVars>>
SpecValidator == SpecValidatorInit /\ [][SpecValidatorNext]_vars

\* The launcher, the health monitor and the drivers on a host whose port opens
\* and closes at any time.
SpecServiceInit ==
    /\ ServiceInit /\ argName = <<>> /\ ValidatorIdle /\ RetryInputsUnused /\ RetryIdle
    /\ OthersUnused
SpecServiceNext ==
    \/ start_ollama /\ UNCHANGED <<retryIn, validatorVars, otherVars>>
    \/ pull_model /\ UNCHANGED <<retryIn, validatorVars, otherVars>>
    \/ run_model /\ UNCHANGED <<retryIn, validatorVars, otherVars>>
    \/ StartOllamaEnter /\ UNCHANGED <<retryIn, argName, validatorVars, otherVars>>
    \/ IsResponsiveEnter /\ UNCHANGED <<retryIn, argName, validatorVars, otherVars>>
    \/ HealthGet /\ UNCHANGED <<retryIn, argName, validatorVars, otherVars>>
    \/ HealthBackoff /\ UNCHANGED <<retryIn, argName, validatorVars, otherVars>>
    \/ IsResponsiveReturn /\ UNCHANGED <<retryIn, argName, validatorVars, otherVars>>
    \/ PollEnd /\ UNCHANGED <<retryIn, argName, validatorVars, otherVars>>
    \/ StartSleep /\ UNCHANGED <<retryIn, argName, validatorVars, otherVars>>
    \/ DriverResume /\ UNCHANGED <<retryIn, validatorVars, otherVars>>
    \/ DriverSpawn /\ UNCHANGED <<retryIn, validatorVars, otherVars>>
    \/ DriverExit /\ UNCHANGED <<retryIn, validatorVars, otherVars>>
    \/ OperationEnds /\ UNCHANGED <<retryIn, validatorVars, otherVars>>
    \/ PortOpens /\ UNCHANGED <<retryIn, retryVars, argName, validatorVars, ollamaInstalled,
                                callerVars, driverVars, startVars, healthVars, otherVars>>
    \/ PortCloses /\ UNCHANGED <<retryIn, retryVars, argName, validatorVars, ollamaInstalled,
                                 callerVars, driverVars, startVars, healthVars, otherVars>>
SpecService == SpecServiceInit /\ [][SpecServiceNext]_vars

\* The tunnel supervisor, its client and the user's interrupts.
SpecTunnelInit ==
    /\ TunnelInit /\ ServiceUnused /\ argName = <<>> /\ ValidatorIdle
    /\ RetryInputsUnused /\ RetryIdle /\ InstallUnused /\ UnwindIdle /\ PullUnused
tunnelRest == <<retryIn, retryVars, argName, validatorVars, serviceVars, installHost, installVars,
                unwindVars, pullVars>>
SpecTunnelNext ==
    \/ start_temp_tunnel /\ UNCHANGED tunnelRest
    \/ TunnelSpawn /\ UNCHANGED tunnelRest
    \/ TunnelPoll /\ UNCHANGED tunnelRest
    \/ TunnelRead /\ UNCHANGED tunnelRest
    \/ TunnelSleep /\ UNCHANGED tunnelRest
    \/ TunnelIdleSleep /\ UNCHANGED tunnelRest
    \/ TunnelInterruptActive /\ UNCHANGED tunnelRest
    \/ TunnelWaitReturns /\ UNCHANGED tunnelRest
    \/ TunnelInterruptOther /\ UNCHANGED tunnelRest
    \/ ClientExits /\ UNCHANGED tunnelRest
SpecTunnel == SpecTunnelInit /\ [][SpecTunnelNext]_vars

\* The installer, called by run(), with the tools it runs; pull_model is
\* followed on the names it turns away.
SpecInstallInit ==
    /\ InstallHostInit /\ InstallIdle /\ imsg = "none"
    /\ ServiceInit /\ argName = <<>> /\ ValidatorIdle /\ RetryInputsUnused /\ RetryIdle
    /\ verbose = FALSE /\ cloudflaredInstalled \in BOOLEAN /\ ClientNone /\ TunnelIdle
    /\ UnwindIdle /\ PullUnused
clientRest == <<verbose, clientState, stream, avail, staysAlive, obeysTerm, termSent>>
installRest == <<retryIn, validatorVars, clientVars, tunnelVars, unwindVars, pullVars>>
SpecInstallNext ==
    \/ install_ollama /\ UNCHANGED installRest
    \/ install_cloudflared /\ UNCHANGED installRest
    \/ InstallRun /\ UNCHANGED <<installRest, argName, retryVars, serviceVars>>
    \/ InstallRunEnds /\ UNCHANGED <<installRest, argName, retryVars, serviceVars>>
    \/ InstallLookup /\ UNCHANGED <<installRest, argName, retryVars, serviceVars>>
    \/ ConfigOpen /\ UNCHANGED <<installRest, argName, retryVars, serviceVars>>
    \/ ConfigWrite /\ UNCHANGED <<installRest, argName, retryVars, serviceVars>>
    \/ InstallEnds /\ UNCHANGED <<retryIn, validatorVars, clientRest, tunnelVars, unwindVars,
                                   pullVars>>
    \/ pull_invalid /\ UNCHANGED <<installRest, installHost, installVars>>
    \/ OperationEnds /\ UNCHANGED <<installRest, installHost, installVars>>
SpecInstall == SpecInstallInit /\ [][SpecInstallNext]_vars

\* An exception raised in one of the program's calls, up to the handler that
\* deals with it.
SpecInterruptInit ==
    /\ UnwindInit /\ ServiceUnused /\ argName = <<>> /\ ValidatorIdle
    /\ RetryInputsUnused /\ RetryIdle /\ TunnelUnused /\ InstallUnused /\ PullUnused
interruptRest == <<retryIn, retryVars, argName, validatorVars, hostVars, op, opsLeft, lsofRuns,
                   driverVars, startVars, healthVars, clientVars, tunnelVars, installHost,
                   installVars, pullVars>>
SpecInterruptNext ==
    \/ UnwindRaise /\ UNCHANGED interruptRest
    \/ UnwindStep /\ UNCHANGED interruptRest
    \/ UnwindWaitReturns /\ UNCHANGED interruptRest
SpecInterrupt == SpecInterruptInit /\ [][SpecInterruptNext]_vars

\* The output loop of pull_model over the streams of PullInit.
SpecPullInit ==
    /\ PullInit /\ ServiceUnused /\ argName = <<>> /\ ValidatorIdle
    /\ RetryInputsUnused /\ RetryIdle /\ TunnelUnused /\ InstallUnused /\ UnwindIdle
pullRest == <<retryIn, retryVars, argName, validatorVars, serviceVars, clientVars, tunnelVars,
              installHost, installVars, unwindVars>>
SpecPullNext ==
    \/ PullLine /\ UNCHANGED pullRest
    \/ PullLoopEnds /\ UNCHANGED pullRest
SpecPull == SpecPullInit /\ [][SpecPullNext]_vars

-----------------------------------------------------------------------------
(* Claims about retry_operation, under SpecRetry *)

\* The retry configuration the caller asked for: an argument left unset takes
\* the configured default.
AskedMax == IF argMax = None THEN config_max_retries ELSE argMax[1]
AskedDelay == IF argDelay = None THEN config_retry_delay ELSE argDelay[1]
AskedBackoff == IF argBackoff = None THEN config_retry_backoff ELSE argBackoff[1]

\* max attempts >= 1, initial delay > 0, multiplier >= 1
InRetryConfig == AskedMax >= 1 /\ AskedDelay > 0 /\ AskedBackoff >= 1

\* The error classes the claims call recoverable.
ClaimRecoverable == {"ConnectionError", "CalledProcessError"}

\* The operation raises a recoverable error on each of its first k calls.
FailsFirst(k) ==
    \A i \in 1..k : opScript[i].kind = "raise" /\ opScript[i].what \in ClaimRecoverable

RetryDone == rpc \in {"returned", "raised"}

\* d*b^0, d*b^1, ..., d*b^(k-1)
BackoffDelays(k) == [i \in 1..k |-> AskedDelay * Pow(AskedBackoff, i - 1)]

\* C1: an operation that raises a recoverable error on exactly its first k < N
\* calls and then succeeds is invoked exactly k+1 times; the wrapper returns the
\* value of the (k+1)-th invocation and has slept exactly k times, for d*b^0,
\* d*b^1, ..., d*b^(k-1) in that order.
C1_RetryThenSuccess ==
    InRetryConfig =>
      \A k \in 0..(AskedMax - 1) :
        (FailsFirst(k) /\ opScript[k + 1].kind = "return") =>
          /\ calls <= k + 1
          /\ Len(sleeps) <= k
          /\ RetryDone =>
               /\ rpc = "returned"
               /\ outcome = Obj(opScript[k + 1], k + 1)
               /\ calls = k + 1
               /\ sleeps = BackoffDelays(k)

C1_Witness ==
    /\ rpc = "returned" /\ calls = 3 /\ InRetryConfig
    /\ FailsFirst(2)
    /\ AskedDelay = 500 /\ AskedBackoff = 3
    /\ sleeps = <<500, 1500>>

\* C2: an operation that raises a recoverable error on every call is invoked
\* exactly max_attempts times, and the wrapper then raises the very error the
\* final invocation raised.
C2_AlwaysFailsReraisesLast ==
    (InRetryConfig /\ FailsFirst(AskedMax)) =>
      /\ calls <= AskedMax
      /\ RetryDone =>
           /\ rpc = "raised"
           /\ calls = AskedMax
           /\ outcome = Obj(opScript[AskedMax], AskedMax)

C2_Witness ==
    /\ rpc = "raised" /\ InRetryConfig /\ AskedMax = 3 /\ FailsFirst(3)
    /\ calls = 3
    /\ opScript[3].what # opScript[2].what
    /\ outcome.what = opScript[3].what /\ outcome.call = 3

\* C3: when the j-th invocation raises an error outside the recoverable classes
\* (the earlier ones having raised recoverable errors), the wrapper raises that
\* very error at once: there is no (j+1)-th invocation, and no sleep and no retry
\* warning beyond the j-1 that preceded it.
C3_UnrecoverablePropagates ==
    InRetryConfig =>
      \A j \in 1..AskedMax :
        ( /\ FailsFirst(j - 1)
          /\ opScript[j].kind = "raise"
          /\ opScript[j].what \notin ClaimRecoverable ) =>
          /\ calls <= j
          /\ Len(sleeps) <= j - 1
          /\ Len(warns) <= j - 1
          /\ calls = j => rpc = "raised"
          /\ RetryDone =>
               /\ rpc = "raised"
               /\ outcome = Obj(opScript[j], j)
               /\ calls = j
               /\ Len(sleeps) = j - 1
               /\ Len(warns) = j - 1

C3_Witness ==
    /\ rpc = "raised" /\ InRetryConfig /\ AskedMax = 3
    /\ FailsFirst(1)
    /\ opScript[2] = Raise("ValueError")
    /\ calls = 2 /\ Len(sleeps) = 1 /\ Len(warns) = 1
    /\ outcome = Obj(Raise("ValueError"), 2)

\* An argument that is unset or 0.
Falsy(x) == x \in {None, Some(0)}

\* C25: with max_retries, delay and backoff each unset or >= 0, an argument
\* that is unset or 0 takes the configured default (3 attempts, 1.0 s, factor
\* 2), the operation is invoked at least once, and the call ends with what an
\* invocation of the operation returned or raised, never with the generic
\* "All retry attempts failed".
C25_TrailingRaiseUnreachable ==
    /\ outcome # AllFailed
    /\ rpc # "idle" =>
          /\ max_retries >= 1
          /\ Falsy(argMax) => max_retries = 3
          /\ Falsy(argDelay) => delay = 1000
          /\ Falsy(argBackoff) => backoff = 2
    /\ RetryDone =>
          /\ calls >= 1
          /\ outcome = Obj(Script(calls), calls)
          /\ rpc = "returned" <=> outcome.kind = "return"
C25_Witness ==
    /\ rpc = "raised" /\ calls = 3
    /\ argMax = Some(0) /\ argDelay = Some(0) /\ argBackoff = Some(0)
    /\ sleeps = <<1000, 2000>>
    /\ outcome = Obj(Raise("ConnectionError"), 3)

-----------------------------------------------------------------------------
(* Claims about the validator, under SpecValidator *)

\* The forbidden characters as the claim lists them.
ClaimForbidden == {";", "&", "|", Grave, "$", "(", ")", "<", ">", "\"", "'", "\\", "\n", "\r"}

\* s matches ^[A-Za-z0-9._:-]+$ from its first to its last character.
FullMatch(s) == Len(s) >= 1 /\ \A i \in 1..Len(s) : s[i] \in NameClass

\* C4: validate_model_name returns false for every string that holds a
\* forbidden character, or does not match the class end-to-end, or is empty, or
\* is longer than 100 characters; and true for every non-empty string of at
\* most 100 characters of the class.
C4_ValidateDecides ==
    vpc = "validated" =>
      /\ ( \/ \E i \in 1..Len(argName) : argName[i] \in ClaimForbidden
           \/ ~FullMatch(argName)
           \/ Len(argName) = 0
           \/ Len(argName) > 100 ) => valid = FALSE
      /\ ( /\ Len(argName) >= 1
           /\ Len(argName) <= 100
           /\ \A i \in 1..Len(argName) : argName[i] \in NameClass ) => valid = TRUE

C4_Witness ==
    /\ vpc = "validated" /\ valid = FALSE
    /\ Len(argName) = 101
    /\ \A i \in 1..Len(argName) : argName[i] \in NameClass
    /\ argName[101] = ":"

\* C6: for every x that validate_model_name accepts, sanitize_model_name(x)
\* returns, and sanitize_model_name applied to what it returned returns the same
\* string.
C6_SanitizeIdempotent ==
    validate_model_name(argName) =>
      /\ vpc \in {"sanitized", "resanitized"} => clean.kind = "return"
      /\ vpc = "resanitized" => clean2.kind = "return" /\ clean2.what = clean.what

C6_Witness ==
    /\ vpc = "resanitized"
    /\ Len(argName) = 100
    /\ argName[100] = "-"
    /\ clean2 = Ret(argName)

-----------------------------------------------------------------------------
(* Claims about the drivers, the launcher and the health monitor, under
   SpecService *)

\* C5: every model name handed to an "ollama pull" or "ollama run" subprocess
\* has passed validate_model_name (and is the caller's string, trimmed); for a
\* name that fails validation the driver prints the error and returns, having
\* run no subprocess at all and not having started the server.
C5_OnlyValidatedNamesReachOllama ==
    /\ \A i \in 1..Len(modelProcs) :
         /\ validate_model_name(argName)
         /\ modelProcs[i][3] = Strip(argName)
         /\ validate_model_name(modelProcs[i][3])
    /\ (op \in {"pull_model", "run_model"} /\ ~validate_model_name(argName)) =>
         /\ dpc = "done" /\ dmsg = "invalid"
         /\ modelProcs = <<>>
         /\ lsofRuns = 0
         /\ spc = "idle" /\ serverSpawns = 0

C5_Witness ==
    /\ op = "run_model" /\ dpc = "running"
    /\ argName = default_model
    /\ modelProcs = << <<"ollama", "run", default_model>> >>
    /\ driverSleeps = 3

\* C7: a start_ollama call that finds the port listening spawns no server,
\* polls nothing, sleeps nothing and returns; and no call spawns more than one
\* server.
C7_StartOllamaIdempotent ==
    /\ serverSpawns <= 1
    /\ (spc \in {"poll", "sleep", "done", "raised"} /\ listeningAtCall) =>
         /\ spc = "done"
         /\ serverSpawns = 0
         /\ pollResults = <<>> /\ hpc = "idle"
         /\ pollSleeps = 0
         /\ startMsg = "none"

C7_Witness ==
    /\ op = "start_ollama" /\ spc = "done" /\ listeningAtCall
    /\ serverSpawns = 0 /\ lsofRuns = 1

\* C8: a start_ollama call that finds the port not listening spawns the server
\* once and then polls is_ollama_responsive at most 30 times, sleeping one
\* second after each poll that answered false; the first poll that answers
\* true is the last one, and no sleep follows it.
C8_PollsUntilFirstTrue ==
    (spc \in {"poll", "sleep", "done"} /\ ~listeningAtCall) =>
      /\ serverSpawns = 1
      /\ Len(pollResults) <= 30
      /\ \A i \in 1..Len(pollResults) :
           pollResults[i] =>
             /\ i = Len(pollResults)
             /\ spc = "done" /\ hpc = "idle"
             /\ pollSleeps = i - 1
      /\ spc = "poll" => pollSleeps = Len(pollResults)
      /\ spc = "sleep" => pollSleeps = Len(pollResults) - 1

C8_Witness ==
    /\ spc = "done" /\ ~listeningAtCall /\ serverSpawns = 1
    /\ pollResults = <<FALSE, FALSE, TRUE>>
    /\ pollSleeps = 2
    /\ startMsg = "ready"

\* C9: when no poll of the startup window answers true, start_ollama returns
\* after exactly 30 polls with the warning; it raises nothing, the process
\* keeps running, and a driver that called it goes on.
C9_SoftFailureAfterWindow ==
    (~listeningAtCall /\ serverSpawns = 1 /\ \A i \in 1..Len(pollResults) : ~pollResults[i]) =>
      /\ spc # "raised"
      /\ process = "running"
      /\ spc = "done" =>
           /\ Len(pollResults) = 30
           /\ startMsg = "warn"
           /\ dpc = "starting" => ENABLED (DriverResume /\ dpc' = "spawn")

C9_Witness ==
    /\ spc = "done" /\ ~listeningAtCall /\ serverSpawns = 1
    /\ Len(pollResults) = 30 /\ \A i \in 1..30 : ~pollResults[i]
    /\ pollSleeps = 30
    /\ startMsg = "warn"
    /\ op = "pull_model" /\ dpc = "starting"

\* The answers that are network errors.
NetworkErrors == {"ConnectionError"}

\* C10: is_ollama_responsive returns true exactly when the port was listening
\* and the last GET answered HTTP 200; a GET is repeated only after a network
\* error and there are at most 2 GETs; when the port is not listening it returns
\* false without any GET; a failed or non-200 probe gives false.
C10_ResponsiveIffListeningAnd200 ==
    /\ Len(gets) <= 2
    /\ responsive \in BOOLEAN
    /\ hpc = "done" =>
         /\ responsive = (probeListening /\ Len(gets) >= 1 /\ gets[Len(gets)] = "HTTP200")
         /\ ~probeListening => gets = <<>>
         /\ probeListening => Len(gets) >= 1
         /\ Len(gets) = 2 <=> (Len(gets) >= 1 /\ gets[1] \in NetworkErrors)

C10_Witness ==
    /\ hpc = "done" /\ probeListening
    /\ gets = <<"ConnectionError", "HTTP200">>
    /\ responsive = TRUE

-----------------------------------------------------------------------------
(* Claims about start_temp_tunnel, under SpecTunnel *)

Matches(line) == ReSearch(Strip(line)) # None
\* The place in the stream of the first line that matches the pattern, or 0.
FirstMatch(s) ==
    IF \E i \in 1..Len(s) : Matches(s[i])
      THEN CHOOSE i \in 1..Len(s) : Matches(s[i]) /\ \A j \in 1..(i - 1) : ~Matches(s[j])
      ELSE 0
Logged(e) == \E i \in 1..Len(tlog) : tlog[i] = e
\* start_temp_tunnel returned without ever holding a URL.
EndedWithoutUrl == tpc = "done" /\ tunnel_url = None

\* C11, as stated: whenever the client's output holds a matching line,
\* start_temp_tunnel becomes Active; so a run that returned without a URL,
\* its client still running, had no matching line to read.
C11_AnyMatchingLineReachesActive ==
    (EndedWithoutUrl /\ clientState = "running") => FirstMatch(stream) = 0

\* C11, amended: a matching line that has been read makes the supervisor
\* Active with the URL of the first matching line, verbose or not; and a run
\* returns without a URL only if the stream has no matching line, or the first
\* one lies beyond the first tunnel_url_wait lines, or the client exited
\* without writing it, or a check found the client exited.
C11_MatchWithinWindowReachesActive ==
    LET k == FirstMatch(stream) IN
    /\ (k > 0 /\ readCount >= k) =>
          /\ tunnel_url = ReSearch(Strip(stream[k]))
          /\ tpc \in {"active", "waiting", "done", "raised"}
          /\ Logged("url")
          /\ k <= config_tunnel_url_wait
    /\ EndedWithoutUrl =>
          \/ k = 0
          \/ k > config_tunnel_url_wait
          \/ avail < k
          \/ Logged("terminated_unexpectedly")
C11_Witness ==
    /\ tpc = "active" /\ ~verbose /\ echoed = 0
    /\ FirstMatch(stream) = config_tunnel_url_wait
    /\ tunnel_url = Some(<<"https://", "abc123", ".trycloudflare.com">>)

\* The supervisor is waiting for the URL.
AwaitingURL == tpc \in {"poll", "read", "sleep"}
\* Every step but the user's interrupt: the supervisor's own and the client's.
TunnelProgress ==
    \/ TunnelPoll
    \/ TunnelRead
    \/ TunnelSleep
    \/ TunnelWaitReturns
    \/ ClientExits

\* C12, as stated: with a client that writes no matching line, the wait for
\* the URL begins at most tunnel_url_wait iterations, is never stuck (the
\* supervisor or the client can always take a step, so that a client which
\* stays alive and silent does not hold it), and ends with the message
\* "Failed to obtain tunnel URL".
C12_UrlWaitBounded ==
    FirstMatch(stream) = 0 =>
        /\ iter <= config_tunnel_url_wait
        /\ AwaitingURL => ENABLED TunnelProgress
        /\ tpc = "done" => Logged("failed_url")

\* C13, as stated: once the client has exited and no matching line has been
\* read, no step makes the supervisor Active, and a return reports
\* "terminated unexpectedly".
C13_ExitBeforeMatchStops ==
    [][(clientState = "exited" /\ tunnel_url = None) =>
          /\ tpc' # "active"
          /\ tpc' = "done" =>
                \E i \in 1..Len(tlog') : tlog'[i] = "terminated_unexpectedly"]_vars

\* C14: once the temporary file has been created it exists until
\* start_temp_tunnel ends, and it is gone when start_temp_tunnel has ended,
\* by return or by an exception.
C14_TempFileRemoved ==
    /\ tpc \in {"done", "raised"} => tmpFile = "removed"
    /\ tpc \notin {"idle", "done", "raised"} => tmpFile = "exists"
    /\ tpc = "idle" => tmpFile = "absent"
C14_Witness ==
    /\ tpc = "raised" /\ texc = "KeyboardInterrupt"
    /\ clientState = "running" /\ iter > 1
    /\ tmpFile = "removed"

\* The place of event e in the log, or 0.
Pos(e) == IF Logged(e) THEN CHOOSE i \in 1..Len(tlog) : tlog[i] = e ELSE 0

\* C15, as stated: after an interrupt in Active the supervisor terminates the
\* client, waits for its exit, removes the file and returns, in this order;
\* and the wait is bounded, so that it is never stuck on a client that does
\* not exit.
C15_GracefulStopBounded ==
    /\ tpc = "waiting" => ENABLED TunnelProgress
    /\ (tpc = "done" /\ Logged("stopping")) =>
          /\ clientState = "exited"
          /\ 0 < Pos("terminate")
          /\ Pos("terminate") < Pos("waited")
          /\ Pos("waited") < Pos("unlink")
          /\ Pos("unlink") < Pos("return")

\* How many times the URL was printed.
UrlPrints == Cardinality({i \in 1..Len(tlog) : tlog[i] = "url"})

\* C24: the URL is printed once, when the supervisor becomes Active, and
\* never changes afterwards; from Active the supervisor's state changes only
\* by the user's interrupt, which starts the stop: an exit of the client
\* while Active changes nothing in the supervisor.
C24_ActiveUntilInterrupt ==
    /\ [](UrlPrints = IF tunnel_url = None THEN 0 ELSE 1)
    /\ [][tunnel_url # None => tunnel_url' = tunnel_url]_vars
    /\ [][tpc = "active" =>
            \/ UNCHANGED tunnelVars
            \/ /\ tpc' = "waiting"
               /\ termSent'
               /\ tlog' = tlog \o <<"stopping", "terminate">>]_vars
C24_Witness ==
    /\ tpc = "active" /\ clientState = "exited" /\ ~termSent
    /\ UrlPrints = 1

\* C23, as stated: whenever start_temp_tunnel has removed the temporary
\* file, the client it spawned has exited.  Stated here for the runs that end
\* by return alone, which leaves the user's interrupts aside.
C23_FileRemovedOnlyAfterClientExit ==
    (tmpFile = "removed" /\ texc = "none") => clientState # "running"

-----------------------------------------------------------------------------
(* Claims about the installer, under SpecInstall *)

\* Every step of the installer but the user's interrupt.
InstallProgress ==
    \/ InstallRun
    \/ InstallRunEnds
    \/ InstallLookup
    \/ ConfigOpen
    \/ ConfigWrite
    \/ InstallEnds

\* C17, as stated: every external command of install_ollama and
\* install_cloudflared runs with a timeout, so that an install in hand can
\* always take a step, whatever its tool does, a hang included.
C17_InstallStepsHaveTimeouts ==
    /\ ipc = "run" => Step.timeout # None
    /\ ipc \in {"next", "run", "config"} => ENABLED InstallProgress

\* C18, as stated: an install fails on a non-zero exit code only after the
\* step was run max_retries times, and not when the step would have succeeded
\* on its next run.
C18_InstallStepsRetried ==
    (ipc = "exit" /\ imsg = "exit_code") =>
        /\ stepRuns = config_max_retries
        /\ toolLater # "ok"

\* C19, as stated: config.yml holds what it held before the install, or the
\* complete configuration; never anything else.
C19_ConfigWriteAtomic ==
    configFile \in {configBefore, Some(CompleteConfig)}

InstallFailures == {"unsupported_pm", "unsupported_arch", "timeout", "exit_code", "unexpected"}

\* C20, as stated: the process is ended only by an unsupported platform or an
\* install timeout; a non-zero exit code of an install step leaves it running.
C20_OnlyPlatformAndTimeoutExit ==
    process = "exit1" => imsg \in {"unsupported_pm", "unsupported_arch", "timeout"}

\* C20, amended: every failure of an install (unsupported package manager or
\* architecture, timeout, non-zero exit code, any other error) ends the
\* process with status 1 as soon as the installer is left, and nothing else
\* does; a model name that is turned away ends pull_model with the process
\* still running.
C20_InstallFailuresExit ==
    /\ (ipc = "idle" /\ imsg \in InstallFailures) => process = "exit1"
    /\ imsg \in InstallFailures => ipc \in {"exit", "idle"}
    /\ ipc = "exit" => imsg \in InstallFailures
    /\ process = "exit1" => imsg \in InstallFailures
    /\ (op = "pull_model" /\ dmsg = "invalid") => (dpc = "done" /\ process = "running")
C20_Witness ==
    /\ process = "exit1" /\ imsg = "exit_code"
    /\ opsLeft = 0 /\ ollamaInstalled

\* The architectures the claim names, with the artifact of each.
ClaimArtifact ==
    [a \in {"x86_64", "amd64", "aarch64", "arm64", "armv7l", "armhf", "i386", "i686"} |->
        IF a \in {"x86_64", "amd64"} THEN "cloudflared-linux-amd64.deb"
        ELSE IF a \in {"aarch64", "arm64"} THEN "cloudflared-linux-arm64.deb"
        ELSE IF a \in {"armv7l", "armhf"} THEN "cloudflared-linux-armhf.deb"
        ELSE "cloudflared-linux-386.deb"]
OnAptCloudflared == iwhich = "cloudflared" /\ PkgMgr = "apt"

\* C22: the lookup gives each of the eight named architectures its artifact
\* and every other string nothing; on the apt path an install whose lookup
\* gave nothing ends at the lookup, with status 1, with no cloudflared.deb
\* and config.yml as it was; the download, dpkg, the config write and the
\* service registration are reached only with a named architecture.
C22_ArchMapping ==
    /\ \A a \in Archs :
          _get_cloudflared_url(a) =
              IF a \in DOMAIN ClaimArtifact THEN Some(ClaimArtifact[a]) ELSE None
    /\ (OnAptCloudflared /\ istep > 3) =>
          /\ arch \in DOMAIN ClaimArtifact
          /\ url = Some(ClaimArtifact[arch])
    /\ (ipc = "exit" /\ imsg = "unsupported_arch") =>
          /\ OnAptCloudflared /\ Step.kind = "lookup"
          /\ arch \notin DOMAIN ClaimArtifact /\ url = None
    /\ imsg = "unsupported_arch" =>
          /\ ipc \in {"exit", "idle"}
          /\ ipc = "idle" => process = "exit1"
          /\ ~debFile /\ configFile = configBefore
C22_Witness ==
    /\ ipc = "exit" /\ imsg = "unsupported_arch" /\ arch = "riscv64"
    /\ istep = 3 /\ configFile = Some(OldConfig)

-----------------------------------------------------------------------------
(* Claims about interrupts, under SpecInterrupt *)

ErrorMsgs == {"error_occurred", "error_timeout", "error_exit_code", "error_unexpected",
              "error_invalid_name", "error_run_model"}

\* C16: after KeyboardInterrupt in any call of the program, no error message
\* is printed, no handler swallows the interrupt so that the run goes on, and
\* the process never ends with status 1: it ends with status 0.
C16_InterruptEndsCleanly ==
    uraised = "KeyboardInterrupt" =>
        /\ \A i \in 1..Len(umsgs) : umsgs[i] \notin ErrorMsgs
        /\ ustatus # "resumed"
        /\ process # "exit1"
        /\ ustatus = "exited" <=> process = "exit0"
C16_Witness ==
    /\ uraised = "KeyboardInterrupt" /\ ustatus = "exited"
    /\ usite.at = "subprocess.run:194"
    /\ process = "exit0" /\ umsgs = <<"cancelled">>

-----------------------------------------------------------------------------
(* Claims about the output loop of pull_model, under SpecPull *)

\* The lines among what was printed, in order.
Ordinary(log) ==
    LET lines == SelectSeq(log, LAMBDA e : e.kind = "line")
    IN  [i \in 1..Len(lines) |-> lines[i].line]
\* A sequence without its "pulling manifest" and its empty lines.
Kept(seq) == SelectSeq(seq, LAMBDA l : l # PullingManifest /\ l # EmptyLine)
\* A sequence with each run of equal neighbours reduced to one.
RECURSIVE Collapse(_)
Collapse(seq) ==
    IF Len(seq) <= 1 THEN seq
    ELSE IF seq[1] = seq[2] THEN Collapse(Tail(seq))
    ELSE <<seq[1]>> \o Collapse(Tail(seq))
Stripped(seq) == [i \in 1..Len(seq) |-> strip(seq[i])]
\* An indicator was written and no newline after it.
Pending(log) ==
    \E i \in 1..Len(log) :
        /\ log[i].kind = "indicator"
        /\ \A j \in (i + 1)..Len(log) : log[j].kind # "newline"
NewlineBeforeLine ==
    /\ \A i \in 1..Len(pout) :
          pout[i].kind = "line" => ~Pending(SubSeq(pout, 1, i - 1))
    /\ ppc = "done" => ~Pending(pout)

\* C21 as stated: the lines printed are the lines of the stream, as they
\* are, without the "pulling manifest" and the empty ones and with repeats
\* collapsed; a pending indicator is ended by a newline before a line.
C21_PrintsInputLines ==
    /\ ppc = "done" => Ordinary(pout) = Collapse(Kept(pullIn))
    /\ NewlineBeforeLine

\* C21, amended: the lines printed are the lines of the stream, each without
\* its leading and trailing blanks, without those that are then "pulling
\* manifest" or empty and with repeats collapsed, at every point of the
\* stream; a pending indicator is ended by a newline before a line is
\* printed, and at the end of the stream.
C21_PrintsStrippedLines ==
    /\ ppc \in {"loop", "done"} =>
          Ordinary(pout) = Collapse(Kept(Stripped(SubSeq(pullIn, 1, ppos))))
    /\ ppc = "loop" => (manifest_count > 0 <=> Pending(pout))
    /\ NewlineBeforeLine
C21_Witness ==
    /\ ppc = "done"
    /\ pullIn = [i \in 1..12 |-> PullingManifest]
                   \o <<Line(0, "verifying sha256 digest", 0), Line(0, "success", 0)>>
    /\ pout = <<Indicator(1), Indicator(1), Indicator(2), Newline,
                Printed(Line(0, "verifying sha256 digest", 0)),
                Printed(Line(0, "success", 0))>>

=============================================================================
